---- MODULE Spec2Model ----
(***************************************************************************)
(* A model of the saturation loop of the Limited Resource Strategy        *)
(* (Saturation/LRS.cpp), of the rebalancing inverters                     *)
(* (Kernel/Rebalancing/Inverters.cpp), and of the portfolio scheduler     *)
(* declared in CASC/CASCMode.hpp.                                          *)
(*                                                                         *)
(* Spec      : LRS::doSaturation, one step per program point.             *)
(* SpecCnt   : the calls of LRS::shouldUpdateLimits of one process.       *)
(* SpecEst   : one call of LRS::estimatedReachableCount.                  *)
(* SpecInv   : canInvertTop and invertTop on one InversionContext.        *)
(* SpecSched : CASCMode::perform running the quick and fallback schedule. *)
(***************************************************************************)
EXTENDS Integers, Sequences, FiniteSets, TLC

VARIABLES
  pc,            \* program point of LRS::doSaturation
  unprocessed,   \* _unprocessed: FIFO of clause ids
  newClauses,    \* clauses generated and not yet moved to _unprocessed
  passive,       \* _passive: set of clause ids
  active,        \* _active: set of clause ids
  simplCont,     \* _simplCont: set of clause ids
  store,         \* Clause::store() of every clause id
  cur,           \* the local `c` of the inner loop (0: none)
  complete,      \* the local `complete`
  optComplete,   \* env.options->complete()
  limits,        \* getLimits(): [weightLimited, ageLimited]
  cnt,           \* the static `cnt` of shouldUpdateLimits
  tl,            \* env.timeLimitReached()
  result,        \* the SaturationResult returned ("None" while running)
  lastUpd,       \* argument of the updateLimits call of the last limit step (NoCall: none)
  everLimited,   \* some updateLimits call of this run left a limit active
  inert,         \* the input is inert: nothing generates a clause, no deadline
  admitted,      \* inert runs: the clauses addToPassive admitted
  removed,       \* inert runs: the clauses backwardSimplify deleted
  actCount,      \* inert runs: the number of activate(c) calls per clause
  helperCalls,   \* the helper calls made for `c` in its iteration: <<name, returned>>
  limObs,        \* the limit step just taken: [should, in, est] (NoLimObs: none)
  late,          \* clauses processed and activated since the deadline passed
  \* -- observation of the calls of shouldUpdateLimits (SpecCnt)
  callNo,        \* ordinal of the last call among the calls since the last true return
  lastRet,       \* what the last call returned ("none" before the first)
  activeAtCall,  \* a limit was active at the last call
  allInactive,   \* no limit was active at any call since the last true return
  allActive,     \* a limit was active at every call since the last true return
  runStart,      \* the current LRS run has not called shouldUpdateLimits yet
  \* -- one call of estimatedReachableCount (SpecEst)
  estPc,         \* "idle", "call" (before the call) or "ret" (after it)
  estIn,         \* what the call reads
  estOut,        \* its outcome
  \* -- one use of the NumberTheoryInverter (SpecInv)
  invPc,         \* "idle", "call" or "ret"
  vdebug,        \* the build checks its assertions (VDEBUG)
  ctxt,          \* the InversionContext: [topTerm, topIdx, toWrap]
  canInvert,     \* what canInvertTop(ctxt) returned
  inverted,      \* the outcome of invertTop(ctxt)
  \* -- the portfolio scheduler (SpecSched)
  schPc,         \* "idle", "quick", "fallback" or "done"
  quick,         \* the quick schedule: a sequence of slices [code, time]
  fallback,      \* the fallback schedule
  idx,           \* position of the next slice in the schedule being run
  remember,      \* the StrategySet shared by both runSchedule calls
  budget,        \* deciseconds left for the whole portfolio
  schLog,        \* every slice run so far: <<code, succeeded>>
  schResult      \* "None", "Success" or "RefutationNotFound"

loopVars == <<pc, unprocessed, newClauses, passive, active, simplCont, store,
              cur, complete, optComplete, limits, cnt, tl, result,
              lastUpd, everLimited, inert, admitted, removed, actCount,
              helperCalls, limObs, late>>

\* the loop's variables other than the counter and the limits
loopOnly == <<pc, unprocessed, newClauses, passive, active, simplCont, store,
              cur, complete, optComplete, tl, result, lastUpd, everLimited,
              inert, admitted, removed, actCount, helperCalls, limObs,
              late>>

\* what the loop records on an inert input (there no clause id is reused)
inertObs == <<admitted, removed, actCount>>

cntObs == <<callNo, lastRet, activeAtCall, allInactive, allActive, runStart>>

estVars == <<estPc, estIn, estOut>>

invVars == <<invPc, vdebug, ctxt, canInvert, inverted>>

\* what the saturation loop leaves alone
schVars == <<schPc, quick, fallback, idx, remember, budget, schLog, schResult>>

auxVars == <<cntObs, estVars, invVars, schVars>>

vars == <<loopVars, cntObs, estVars, invVars, schVars>>

-----------------------------------------------------------------------------
(* Bounds of the model. *)

\* clause objects alive at the same time: ids 1..MaxClauses (the id of a
\* deleted clause is free for a clause created later)
MaxClauses == 2

Clauses == 1..MaxClauses

NoCall == -2

\* the clauses handled after the deadline are counted up to MaxLate
MaxLate == 2

-----------------------------------------------------------------------------
(* LRS::shouldUpdateLimits, LRS.cpp:31-44. *)

\* LRS.cpp:39  cnt==500
UpdatePeriod == 500

\* LRS.cpp:39  cnt>50
LimitedPeriod == 50

\* mutant: the limited period is tested with >= instead of >
shouldUpdateLimitsOffByOne(n, lims) ==
  LET n1 == n + 1 IN
  IF n1 = UpdatePeriod \/ ((lims.weightLimited \/ lims.ageLimited) /\ n1 >= LimitedPeriod)
  THEN [ret |-> TRUE, cnt |-> 0]
  ELSE [ret |-> FALSE, cnt |-> n1]

\* mutant: the period is tested with > instead of ==
shouldUpdateLimitsLatePeriod(n, lims) ==
  LET n1 == n + 1 IN
  IF n1 > UpdatePeriod \/ ((lims.weightLimited \/ lims.ageLimited) /\ n1 > LimitedPeriod)
  THEN [ret |-> TRUE, cnt |-> 0]
  ELSE [ret |-> FALSE, cnt |-> n1]

shouldUpdateLimits(n, lims) ==
  LET n1 == n + 1 IN
  IF n1 = UpdatePeriod \/ ((lims.weightLimited \/ lims.ageLimited) /\ n1 > LimitedPeriod)
  THEN [ret |-> TRUE, cnt |-> 0]
  ELSE [ret |-> FALSE, cnt |-> n1]

-----------------------------------------------------------------------------
(* LRS::estimatedReachableCount, LRS.cpp:50-76.                            *)
(* An input is the record of everything the function reads:                *)
(*   processed  env.statistics->activeClauses                              *)
(*   currTime   env.timer->elapsedMilliseconds()                           *)
(*   startTime  _startTime                                                 *)
(*   lrsFirstTimeCheck, timeLimitInDeciseconds, simulatedTimeLimit         *)
(* All magnitudes of the model stay far below 2^31, so the int and long    *)
(* long arithmetic of the function is exact on them.                       *)

\* C++ integer division truncates toward zero
CDiv(a, b) ==
  IF (a >= 0) = (b > 0) THEN (IF a >= 0 THEN a ELSE -a) \div (IF b > 0 THEN b ELSE -b)
  ELSE -((IF a >= 0 THEN a ELSE -a) \div (IF b > 0 THEN b ELSE -b))

\* LRS.cpp:56  long long timeSpent=currTime-_startTime
TimeSpent(in) == in.currTime - in.startTime

\* LRS.cpp:58  int firstCheck=lrsFirstTimeCheck()*timeLimitInDeciseconds()
FirstCheck(in) == in.lrsFirstTimeCheck * in.timeLimitInDeciseconds

\* LRS.cpp:65-70
TimeLeft(in) ==
  IF in.simulatedTimeLimit # 0
  THEN in.simulatedTimeLimit * 100 - in.currTime
  ELSE in.timeLimitInDeciseconds * 100 - in.currTime

\* LRS.cpp:75 with timeSpent = 0: an integer division by zero is undefined
\* behaviour; the builds trap (x86: SIGFPE) or deliver a fixed value without
\* trapping (AArch64: 0, RISC-V: -1).
Returns(v) == [trap |-> FALSE, val |-> v]

Traps == [trap |-> TRUE, val |-> 0]

DivByZeroOutcomes == {Traps, Returns(0), Returns(-1)}

\* mutant: the quotient is rounded up
estimatedReachableCountRoundsUp(in) ==
  IF TimeSpent(in) < FirstCheck(in) THEN {Returns(-1)}
  ELSE IF TimeLeft(in) <= 0 \/ in.processed <= 10 THEN {Returns(-1)}
  ELSE IF TimeSpent(in) = 0 THEN DivByZeroOutcomes
  ELSE {Returns(CDiv(in.processed * TimeLeft(in) + TimeSpent(in) - 1, TimeSpent(in)))}

\* mutant: the early return before the first check is missing
estimatedReachableCountNoFirstCheck(in) ==
  IF TimeLeft(in) <= 0 \/ in.processed <= 10 THEN {Returns(-1)}
  ELSE IF TimeSpent(in) = 0 THEN DivByZeroOutcomes
  ELSE {Returns(CDiv(in.processed * TimeLeft(in), TimeSpent(in)))}

\* the set of outcomes of one call (a singleton wherever the code is defined)
estimatedReachableCount(in) ==
  IF TimeSpent(in) < FirstCheck(in) THEN {Returns(-1)}
  ELSE IF TimeLeft(in) <= 0 \/ in.processed <= 10 THEN {Returns(-1)}
  ELSE IF TimeSpent(in) = 0 THEN DivByZeroOutcomes
  ELSE {Returns(CDiv(in.processed * TimeLeft(in), TimeSpent(in)))}

-----------------------------------------------------------------------------
(* LRS::doSaturation, LRS.cpp:78-141.                                      *)
(* The helpers it calls (forwardSimplify, backwardSimplify, addToPassive,  *)
(* activate, onAllProcessed, updateLimits, ...) belong to                  *)
(* SaturationAlgorithm and the clause containers; they are modelled by     *)
(* their contracts, with every outcome the contract allows.                *)

Tags == {"NONE", "UNPROCESSED", "PASSIVE", "ACTIVE"}

NoLimits == [weightLimited |-> FALSE, ageLimited |-> FALSE]

LimitValues == [weightLimited : BOOLEAN, ageLimited : BOOLEAN]

LimitsActive(lims) == lims.weightLimited \/ lims.ageLimited

\* what the environment lets estimatedReachableCount read during the loop:
\* a 1 decisecond budget, first check at 5 percent
LoopOptions ==
  [startTime |-> 0, lrsFirstTimeCheck |-> 5, timeLimitInDeciseconds |-> 1,
   simulatedTimeLimit |-> 0]

LoopProcessed == {10, 11}

LoopTimes == {4, 50, 100}

LoopEstInputs ==
  { [processed |-> p, currTime |-> t, startTime |-> LoopOptions.startTime,
     lrsFirstTimeCheck |-> LoopOptions.lrsFirstTimeCheck,
     timeLimitInDeciseconds |-> LoopOptions.timeLimitInDeciseconds,
     simulatedTimeLimit |-> LoopOptions.simulatedTimeLimit]
    : p \in LoopProcessed, t \in LoopTimes }

\* ids free for a new clause: held by no container and by no local
FreeIds ==
  {c \in Clauses : store[c] = "NONE" /\ c \notin newClauses /\ c # cur}

\* the sets of clauses one helper call can generate: none on an inert input
Generated ==
  IF inert THEN {{}} ELSE {G \in SUBSET FreeIds : Cardinality(G) <= 1}

\* whether activate can derive the empty clause: not on an inert input
Refutations == IF inert THEN {FALSE} ELSE BOOLEAN

\* env.statistics->activeClauses as estimatedReachableCount reads it: any
\* value of LoopProcessed, but 0 in an inert run that has activated nothing
EstInputsNow ==
  IF inert /\ \A c \in Clauses : actCount[c] = 0
  THEN {[in EXCEPT !.processed = 0] : in \in LoopEstInputs}
  ELSE LoopEstInputs

SetToSeq(S) ==
  LET RECURSIVE Go(_)
      Go(T) == IF T = {} THEN <<>>
               ELSE LET m == CHOOSE x \in T : \A y \in T : x <= y
                    IN <<m>> \o Go(T \ {m})
  IN Go(S)

\* SaturationAlgorithm::newClausesToUnprocessed: every generated clause
\* becomes UNPROCESSED and joins _unprocessed
AbsorbInto(nc, st, unp) ==
  [store |-> [c \in Clauses |-> IF c \in nc THEN "UNPROCESSED" ELSE st[c]],
   unprocessed |-> unp \o SetToSeq(nc)]

NoInput ==
  [processed |-> 0, currTime |-> 0, startTime |-> 0, lrsFirstTimeCheck |-> 0,
   timeLimitInDeciseconds |-> 0, simulatedTimeLimit |-> 0]

\* the variables that observe single calls, while no such call is observed
CntObsIdle ==
  /\ callNo = 0
  /\ lastRet = "none"
  /\ activeAtCall = FALSE
  /\ allInactive = TRUE
  /\ allActive = TRUE
  /\ runStart = TRUE

EstIdle ==
  /\ estPc = "idle"
  /\ estIn = NoInput
  /\ estOut = Returns(0)

InvIdle ==
  /\ invPc = "idle"
  /\ vdebug = FALSE
  /\ ctxt = 0
  /\ canInvert = FALSE
  /\ inverted = 0

SchIdle ==
  /\ schPc = "idle"
  /\ quick = <<>>
  /\ fallback = <<>>
  /\ idx = 0
  /\ remember = {}
  /\ budget = 0
  /\ schLog = <<>>
  /\ schResult = "None"

\* estimatedReachableCount was not called
NotCalled == [trap |-> FALSE, val |-> NoCall]

NoLimObs == [should |-> FALSE, in |-> NoInput, est |-> NotCalled]

NoneLate == [processed |-> 0, activated |-> 0]

\* one more clause since the deadline passed (counted up to MaxLate)
Later(n) == IF tl /\ n < MaxLate THEN n + 1 ELSE n

InertObsIdle ==
  /\ admitted = {}
  /\ removed = {}
  /\ actCount = [c \in Clauses |-> 0]

LoopInit ==
  /\ CntObsIdle
  /\ EstIdle
  /\ InvIdle
  /\ SchIdle
  /\ pc = "top"
  /\ unprocessed = <<>>
  /\ \E n \in 0..MaxClauses : newClauses = 1..n
  /\ passive = {}
  /\ active = {}
  /\ simplCont = {}
  /\ store = [c \in Clauses |-> "NONE"]
  /\ cur = 0
  /\ optComplete \in BOOLEAN
  /\ complete = optComplete
  /\ limits = NoLimits
  /\ cnt \in {0}
  /\ tl = FALSE
  /\ result = "None"
  /\ lastUpd = NoCall
  /\ everLimited = FALSE
  /\ inert = FALSE
  /\ InertObsIdle
  /\ helperCalls = <<>>
  /\ limObs = NoLimObs
  /\ late = NoneLate

\* the deadline passes (Environment::timeLimitReached turns true and stays)
Tick ==
  /\ UNCHANGED auxVars
  /\ pc # "done"
  /\ ~inert
  /\ ~tl
  /\ tl' = TRUE
  /\ UNCHANGED <<inert, inertObs, helperCalls, limObs, late>>
  /\ UNCHANGED <<pc, unprocessed, newClauses, passive, active, simplCont, store,
                 cur, complete, optComplete, limits, cnt, result,
                 lastUpd, everLimited>>

\* LRS.cpp:85
NewClausesToUnprocessed ==
  /\ UNCHANGED auxVars
  /\ UNCHANGED <<inert, inertObs, helperCalls, limObs, late>>
  /\ pc = "top"
  /\ LET a == AbsorbInto(newClauses, store, unprocessed) IN
       /\ store' = a.store
       /\ unprocessed' = a.unprocessed
  /\ newClauses' = {}
  /\ pc' = "while"
  /\ UNCHANGED <<passive, active, simplCont, cur, complete, optComplete,
                 limits, cnt, tl, result, lastUpd, everLimited>>

\* LRS.cpp:87-88: the loop test succeeds and c is popped; pop leaves the
\* clause's store as it is (the ASS_EQ of LRS.cpp:100 reads UNPROCESSED)
Pop ==
  /\ UNCHANGED auxVars
  /\ UNCHANGED <<inert, inertObs, helperCalls, late>>
  /\ limObs' = NoLimObs
  /\ pc = "while"
  /\ unprocessed # <<>>
  /\ cur' = Head(unprocessed)
  /\ unprocessed' = Tail(unprocessed)
  /\ pc' = "popped"
  /\ UNCHANGED <<newClauses, passive, active, simplCont, store, complete,
                 optComplete, limits, cnt, tl, result, lastUpd, everLimited>>

\* mutant: the else branch forgets c->setStore(Clause::NONE)
StoreAfterProcessingKeepsTag(st, c, inPassive) ==
  [st EXCEPT ![c] = IF inPassive THEN "PASSIVE" ELSE st[c]]

\* LRS.cpp:96-102: the clause added to passive is PASSIVE already (ASS_EQ of
\* LRS.cpp:97); any other is UNPROCESSED still and is set to NONE
StoreAfterProcessing(st, c, inPassive) ==
  [st EXCEPT ![c] = IF inPassive THEN "PASSIVE" ELSE "NONE"]

\* mutant: c joins _simplCont on both branches
SimplContAfterProcessingAlways(sc, c, inPassive) == sc \cup {c}

\* LRS.cpp:96-102: _simplCont.add(c) on the inPassive branch only
SimplContAfterProcessing(sc, c, inPassive) ==
  IF inPassive THEN sc \cup {c} ELSE sc

\* LRS.cpp:91-95: the helpers called for c, in order, with what they return
\*   fs: what forwardSimplify(c) returns   ap: what addToPassive(c) returns
ProcessingCalls(fs, ap) ==
  IF fs
  THEN <<<<"forwardSimplify", TRUE>>, <<"backwardSimplify", TRUE>>,
         <<"addToPassive", ap>>>>
  ELSE <<<<"forwardSimplify", FALSE>>>>

\* LRS.cpp:91-104: forwardSimplify, backwardSimplify, addToPassive, the
\* store update and newClausesToUnprocessed
\*   fs: forwardSimplify(c) succeeded     ap: addToPassive(c) returned true
\*   V : active or passive clauses backwardSimplify deletes
\*   F : clauses the simplifications generate
Process ==
  /\ UNCHANGED auxVars
  /\ UNCHANGED <<inert, actCount, limObs>>
  /\ late' = [late EXCEPT !.processed = Later(@)]
  /\ pc = "popped"
  /\ \E fs \in BOOLEAN, ap \in BOOLEAN :
     \E V \in {W \in SUBSET (active \cup passive) : Cardinality(W) <= 1} :
     \E F \in Generated :
       LET inPassive == fs /\ ap
           gone == IF fs THEN V ELSE {}
           st1 == [c \in Clauses |-> IF c \in gone THEN "NONE" ELSE store[c]]
           st2 == StoreAfterProcessing(st1, cur, inPassive)
           a == AbsorbInto(newClauses \cup F, st2, unprocessed)
       IN
       /\ newClauses' = {}
       /\ passive' = (passive \ gone) \cup (IF inPassive THEN {cur} ELSE {})
       /\ active' = active \ gone
       /\ simplCont' = SimplContAfterProcessing(simplCont \ gone, cur, inPassive)
       /\ store' = a.store
       /\ unprocessed' = a.unprocessed
       /\ admitted' = IF inert /\ inPassive THEN admitted \cup {cur} ELSE admitted
       /\ removed' = IF inert THEN removed \cup gone ELSE removed
       /\ helperCalls' = ProcessingCalls(fs, ap)
  /\ pc' = "timecheck1"
  /\ UNCHANGED <<cur, complete, optComplete, limits, cnt, tl, result, lastUpd,
                 everLimited>>

\* mutant: the deadline is not polled after a clause was processed
TimeCheck1NoPoll ==
  /\ UNCHANGED auxVars
  /\ UNCHANGED <<inert, inertObs, limObs, late>>
  /\ pc = "timecheck1"
  /\ pc' = "limits"
  /\ UNCHANGED <<result, cur, helperCalls>>
  /\ UNCHANGED <<unprocessed, newClauses, passive, active, simplCont, store,
                 complete, optComplete, limits, cnt, tl, lastUpd,
                 everLimited>>

\* LRS.cpp:106-108
TimeCheck1 ==
  /\ UNCHANGED auxVars
  /\ UNCHANGED <<inert, inertObs, limObs, late>>
  /\ pc = "timecheck1"
  /\ IF tl THEN /\ pc' = "done"
                /\ result' = "TimeLimit"
                /\ cur' = 0
                /\ helperCalls' = <<>>
           ELSE /\ pc' = "limits"
                /\ UNCHANGED <<result, cur, helperCalls>>
  /\ UNCHANGED <<unprocessed, newClauses, passive, active, simplCont, store,
                 complete, optComplete, limits, cnt, tl, lastUpd,
                 everLimited>>

\* mutant: the guard if(complete) is dropped
CompleteAfterUpdateUnguarded(compl, lims) ==
  ~lims.weightLimited /\ ~lims.ageLimited

\* LRS.cpp:113-116
CompleteAfterUpdate(compl, lims) ==
  IF compl THEN ~lims.weightLimited /\ ~lims.ageLimited ELSE compl

\* mutant: updateLimits is called with the estimate -1 as well
CallsUpdateLimitsOnAnyEstimate(o) == ~o.trap

\* LRS.cpp:111: updateLimits is called iff the estimate is >= 0
CallsUpdateLimits(o) == ~o.trap /\ o.val >= 0

\* LRS.cpp:109-118: shouldUpdateLimits, estimatedReachableCount,
\* updateLimits and the update of `complete`; then back to the loop test.
\*   in : what estimatedReachableCount reads from the environment
\*   nl : the limits updateLimits leaves
\*   D  : passive clauses updateLimits drops (they exceed the new limits)
LimitStep ==
  /\ UNCHANGED auxVars
  /\ UNCHANGED <<inert, inertObs, late>>
  /\ pc = "limits"
  /\ LET r == shouldUpdateLimits(cnt, limits) IN
     /\ cnt' = r.cnt
     /\ IF r.ret
        THEN \E in \in EstInputsNow : \E o \in estimatedReachableCount(in) :
             IF CallsUpdateLimits(o)
             THEN \E nl \in LimitValues :
                  \E D \in {E \in SUBSET passive :
                              Cardinality(E) <= 1 /\ (E # {} => LimitsActive(nl))} :
                    /\ limits' = nl
                    /\ passive' = passive \ D
                    /\ simplCont' = simplCont \ D
                    /\ store' = [c \in Clauses |-> IF c \in D THEN "NONE" ELSE store[c]]
                    /\ complete' = CompleteAfterUpdate(complete, nl)
                    /\ lastUpd' = o.val
                    /\ limObs' = [should |-> TRUE, in |-> in, est |-> o]
                    /\ everLimited' = (everLimited \/ LimitsActive(nl))
                    /\ pc' = "while"
                    /\ result' = result
             ELSE /\ lastUpd' = NoCall
                  /\ limObs' = [should |-> TRUE, in |-> in, est |-> o]
                  /\ pc' = IF o.trap THEN "done" ELSE "while"
                  /\ result' = IF o.trap THEN "Crash" ELSE result
                  /\ UNCHANGED <<limits, passive, simplCont, store, complete,
                                 everLimited>>
        ELSE /\ lastUpd' = NoCall
             /\ limObs' = NoLimObs
             /\ pc' = "while"
             /\ UNCHANGED <<limits, passive, simplCont, store, complete,
                            everLimited, result>>
  /\ cur' = 0
  /\ helperCalls' = <<>>
  /\ UNCHANGED <<unprocessed, newClauses, active, optComplete, tl>>

\* mutant: the test of clausesFlushed() is missing
AfterAllProcessedIgnoresFlush(flushed) == "passivecheck"

\* LRS.cpp:121-124: `continue` unless clausesFlushed()
AfterAllProcessed(flushed) == IF flushed THEN "passivecheck" ELSE "top"

\* LRS.cpp:87 (the loop test fails), 120-124: onAllProcessed may generate
\* clauses; clausesFlushed() tells whether none is waiting
AllProcessed ==
  /\ UNCHANGED auxVars
  /\ UNCHANGED <<inert, inertObs, helperCalls, late>>
  /\ limObs' = NoLimObs
  /\ pc = "while"
  /\ unprocessed = <<>>
  /\ \E F \in Generated :
       /\ newClauses' = newClauses \cup F
       /\ pc' = AfterAllProcessed(newClauses \cup F = {})
  /\ UNCHANGED <<unprocessed, passive, active, simplCont, store, cur, complete,
                 optComplete, limits, cnt, tl, result, lastUpd, everLimited>>

\* mutant: the flag is ignored
ResultOnEmptyPassiveAlwaysSat(compl) == "Satisfiable"

\* LRS.cpp:127
ResultOnEmptyPassive(compl) ==
  IF compl THEN "Satisfiable" ELSE "RefutationNotFound"

\* LRS.cpp:126-128
PassiveEmpty ==
  /\ UNCHANGED auxVars
  /\ UNCHANGED <<inert, inertObs, helperCalls, limObs, late>>
  /\ pc = "passivecheck"
  /\ passive = {}
  /\ result' = ResultOnEmptyPassive(complete)
  /\ pc' = "done"
  /\ UNCHANGED <<unprocessed, newClauses, passive, active, simplCont, store,
                 cur, complete, optComplete, limits, cnt, tl, lastUpd,
                 everLimited>>

\* LRS.cpp:130-135: popSelected, activate and, when activation fails,
\* handleUnsuccessfulActivation; deriving the empty clause leaves the loop
\* with a refutation
\*   ok: activate(c) succeeded    F: clauses the inferences generate
Activate ==
  /\ UNCHANGED auxVars
  /\ UNCHANGED <<inert, admitted, removed, helperCalls, limObs>>
  /\ late' = [late EXCEPT !.activated = Later(@)]
  /\ pc = "passivecheck"
  /\ passive # {}
  /\ \E c \in passive, ok \in BOOLEAN, refutation \in Refutations :
     \E F \in Generated :
       /\ actCount' = IF inert THEN [actCount EXCEPT ![c] = @ + 1] ELSE actCount
       /\ passive' = passive \ {c}
       /\ active' = IF ok THEN active \cup {c} ELSE active
       /\ simplCont' = IF ok THEN simplCont ELSE simplCont \ {c}
       /\ store' = [store EXCEPT ![c] = IF ok THEN "ACTIVE" ELSE "NONE"]
       /\ newClauses' = newClauses \cup F
       /\ pc' = IF refutation THEN "done" ELSE "timecheck2"
       /\ result' = IF refutation THEN "Refutation" ELSE result
  /\ UNCHANGED <<unprocessed, cur, complete, optComplete, limits, cnt, tl,
                 lastUpd, everLimited>>

\* mutant: the deadline is not polled after an activation
TimeCheck2NoPoll ==
  /\ UNCHANGED auxVars
  /\ UNCHANGED <<inert, inertObs, helperCalls, limObs, late>>
  /\ pc = "timecheck2"
  /\ pc' = "top"
  /\ UNCHANGED <<unprocessed, newClauses, passive, active, simplCont, store,
                 cur, complete, optComplete, limits, cnt, tl, result, lastUpd,
                 everLimited>>

\* LRS.cpp:137-139, and back to the head of the outer loop
TimeCheck2 ==
  /\ UNCHANGED auxVars
  /\ UNCHANGED <<inert, inertObs, helperCalls, limObs, late>>
  /\ pc = "timecheck2"
  /\ IF tl THEN /\ pc' = "done"
                /\ result' = "TimeLimit"
           ELSE /\ pc' = "top"
                /\ result' = result
  /\ UNCHANGED <<unprocessed, newClauses, passive, active, simplCont, store,
                 cur, complete, optComplete, limits, cnt, tl, lastUpd,
                 everLimited>>

Init == LoopInit

Next ==
  \/ Tick
  \/ NewClausesToUnprocessed
  \/ Pop
  \/ Process
  \/ TimeCheck1
  \/ LimitStep
  \/ AllProcessed
  \/ PassiveEmpty
  \/ Activate
  \/ TimeCheck2

Spec == Init /\ [][Next]_vars

\* the steps of the loop itself
LoopStep ==
  \/ NewClausesToUnprocessed
  \/ Pop
  \/ Process
  \/ TimeCheck1
  \/ LimitStep
  \/ AllProcessed
  \/ PassiveEmpty
  \/ Activate
  \/ TimeCheck2

\* doSaturation is sequential code: as long as every helper call returns,
\* the step it can take next is taken
SpecLive == Init /\ [][Next]_vars /\ WF_vars(LoopStep)

-----------------------------------------------------------------------------
(* SpecCnt: LRS::shouldUpdateLimits called again and again, the limits     *)
(* changing between the calls in any way.                                  *)

LoopIdle ==
  /\ pc = "idle"
  /\ unprocessed = <<>>
  /\ newClauses = {}
  /\ passive = {}
  /\ active = {}
  /\ simplCont = {}
  /\ store = [c \in Clauses |-> "NONE"]
  /\ cur = 0
  /\ complete = FALSE
  /\ optComplete = FALSE
  /\ tl = FALSE
  /\ result = "None"
  /\ lastUpd = NoCall
  /\ everLimited = FALSE
  /\ inert = FALSE
  /\ InertObsIdle
  /\ helperCalls = <<>>
  /\ limObs = NoLimObs
  /\ late = NoneLate

CntInit ==
  /\ LoopIdle
  /\ EstIdle
  /\ InvIdle
  /\ SchIdle
  /\ CntObsIdle
  /\ cnt = 0
  /\ limits = NoLimits

\* one call of shouldUpdateLimits, LRS.cpp:31-44
CallShouldUpdateLimits ==
  /\ LET r == shouldUpdateLimits(cnt, limits)
         no == (IF lastRet = "true" THEN 0 ELSE callNo) + 1
         fresh == lastRet \in {"none", "true"}
     IN
     /\ cnt' = r.cnt
     /\ lastRet' = IF r.ret THEN "true" ELSE "false"
     /\ callNo' = no
     /\ activeAtCall' = LimitsActive(limits)
     /\ allInactive' = ((fresh \/ allInactive) /\ ~LimitsActive(limits))
     /\ allActive' = ((fresh \/ allActive) /\ LimitsActive(limits))
     /\ runStart' = FALSE
  /\ UNCHANGED <<limits, loopOnly, estVars, invVars, schVars>>

\* the limits change between two calls (PassiveClauseContainer::updateLimits)
ChangeLimits ==
  /\ \E nl \in LimitValues : nl # limits /\ limits' = nl
  /\ UNCHANGED <<cnt, cntObs, loopOnly, estVars, invVars, schVars>>

\* the LRS run ends and another LRS object runs doSaturation in the same
\* process: its passive container starts without limits; `cnt` is a static
\* local of shouldUpdateLimits (LRS.cpp:35) and keeps its value
NewRun ==
  /\ ~runStart
  /\ runStart' = TRUE
  /\ limits' = NoLimits
  /\ UNCHANGED <<cnt, callNo, lastRet, activeAtCall, allInactive, allActive>>
  /\ UNCHANGED <<loopOnly, estVars, invVars, schVars>>

CntNext ==
  \/ CallShouldUpdateLimits
  \/ ChangeLimits
  \/ NewRun

SpecCnt == CntInit /\ [][CntNext]_vars

\* C17: every LRS run starts with the call counter of shouldUpdateLimits at
\* 0, so that its limit-update schedule does not depend on the runs made
\* earlier in the process.
C17_CounterStartsAtZero ==
  runStart => cnt = 0

\* C20: after every return of shouldUpdateLimits, whatever the calls and the
\* changes of the limits before it, the counter is in 0..499; no 500
\* consecutive calls all return false; and a call returning true comes at
\* least 51 calls after the call that last reset the counter.
C20_CounterBound ==
  /\ cnt \in 0..(UpdatePeriod - 1)
  /\ lastRet = "false" => callNo <= UpdatePeriod - 1
  /\ lastRet = "true" => (callNo >= LimitedPeriod + 1 /\ callNo <= UpdatePeriod)

\* 499 calls in a row returned false
C20_Witness ==
  /\ lastRet = "false"
  /\ cnt = UpdatePeriod - 1
  /\ callNo = UpdatePeriod - 1

\* C6: the counter is incremented on every call and reset exactly when the
\* call returns true; the call returns true exactly when the incremented
\* counter is 500, or exceeds 50 while a limit is active. So with no limit
\* active since the last reset exactly the 500th call returns true, and
\* with a limit active all along exactly the 51st.
C6_UpdateCadence ==
  lastRet # "none" =>
    /\ cnt = (IF lastRet = "true" THEN 0 ELSE callNo)
    /\ (lastRet = "true") = (callNo = 500 \/ (callNo > 50 /\ activeAtCall))
    /\ allInactive => ((lastRet = "true") = (callNo = 500))
    /\ allActive => ((lastRet = "true") = (callNo = 51))

C6_Witness ==
  /\ lastRet = "true"
  /\ callNo = 500
  /\ allInactive

-----------------------------------------------------------------------------
(* SpecEst: one call of LRS::estimatedReachableCount on any input.         *)

\* milliseconds on the clock, 0..MaxTime
MaxTime == 205

\* time limit options in deciseconds, 0..MaxTimeLimit
MaxTimeLimit == 2

EstInputs ==
  [processed : {0, 10, 11, 12, 1000},
   currTime : 0..MaxTime,
   startTime : {0, 3},
   lrsFirstTimeCheck : {0, 5, 10, 100},
   timeLimitInDeciseconds : 0..MaxTimeLimit,
   simulatedTimeLimit : 0..MaxTimeLimit]

EstInit ==
  /\ LoopIdle
  /\ CntObsIdle
  /\ InvIdle
  /\ SchIdle
  /\ cnt = 0
  /\ limits = NoLimits
  /\ estPc = "call"
  /\ estIn \in EstInputs
  /\ estOut = Returns(0)

\* the call, LRS.cpp:50-76
CallEstimatedReachableCount ==
  /\ estPc = "call"
  /\ estOut' \in estimatedReachableCount(estIn)
  /\ estPc' = "ret"
  /\ UNCHANGED <<estIn, loopVars, cntObs, invVars, schVars>>

EstNext == CallEstimatedReachableCount

SpecEst == EstInit /\ [][EstNext]_vars

\* the quantities the claims speak of
Elapsed == estIn.currTime - estIn.startTime

FirstCheckTime == estIn.lrsFirstTimeCheck * estIn.timeLimitInDeciseconds

Budget ==
  IF estIn.simulatedTimeLimit # 0 THEN estIn.simulatedTimeLimit
  ELSE estIn.timeLimitInDeciseconds

Remaining == Budget * 100 - estIn.currTime

\* C4: the estimate is -1 while elapsed < firstCheck, and an estimate other
\* than -1 is non-negative and at most processed * timeLeft / elapsed.
C4_Conservative ==
  estPc = "ret" =>
    /\ Elapsed < FirstCheckTime => (~estOut.trap /\ estOut.val = -1)
    /\ (~estOut.trap /\ estOut.val # -1) =>
         /\ estOut.val >= 0
         /\ estOut.val * Elapsed <= estIn.processed * Remaining

C4_Witness ==
  /\ estPc = "ret"
  /\ ~estOut.trap
  /\ estOut.val > 0
  /\ estIn.lrsFirstTimeCheck > 0
  /\ Elapsed >= FirstCheckTime
  /\ estOut.val * Elapsed < estIn.processed * Remaining

\* C5: once elapsed >= firstCheck the function returns -1 if timeLeft <= 0
\* or processed <= 10 and otherwise exactly the integer quotient
\* processed * timeLeft / elapsed; with start time 0 and firstCheck at 10%
\* of the budget it returns -1 at 5% of the budget and 1000 at 50% of it
\* with 1000 processed clauses.
C5_ExactQuotient ==
  estPc = "ret" =>
    /\ Elapsed >= FirstCheckTime =>
         /\ ~estOut.trap
         /\ IF Remaining <= 0 \/ estIn.processed <= 10
            THEN estOut.val = -1
            ELSE /\ estOut.val * Elapsed <= estIn.processed * Remaining
                 /\ estIn.processed * Remaining < (estOut.val + 1) * Elapsed
    /\ (estIn.startTime = 0 /\ estIn.lrsFirstTimeCheck = 10
          /\ estIn.simulatedTimeLimit = 0 /\ estIn.timeLimitInDeciseconds > 0) =>
         /\ estIn.currTime = 5 * estIn.timeLimitInDeciseconds
              => (~estOut.trap /\ estOut.val = -1)
         /\ (estIn.currTime = 50 * estIn.timeLimitInDeciseconds
              /\ estIn.processed = 1000)
              => (~estOut.trap /\ estOut.val = 1000)

\* the call gets past both early returns, to the division of LRS.cpp:75
ReachesDivision ==
  /\ Elapsed >= FirstCheckTime
  /\ Remaining > 0
  /\ estIn.processed > 10

\* C19: with now >= _startTime, whenever the call reaches the division
\* (processed*timeLeft)/timeSpent, timeSpent is strictly positive and the
\* division is carried out.
C19_DivisionDefined ==
  (estPc = "ret" /\ estIn.currTime >= estIn.startTime /\ ReachesDivision) =>
    /\ Elapsed > 0
    /\ ~estOut.trap
    /\ estOut = Returns(CDiv(estIn.processed * Remaining, Elapsed))

-----------------------------------------------------------------------------
(* Properties of LRS::doSaturation. *)

\* C1: a run that ends on an empty passive container returns Satisfiable iff
\* `complete` holds at that moment and RefutationNotFound otherwise; a run
\* started with options.complete = false never returns Satisfiable.
C1_ResultOnExhaustion ==
  /\ result \in {"Satisfiable", "RefutationNotFound"} =>
       /\ pc = "done"
       /\ passive = {}
       /\ (result = "Satisfiable") = complete
  /\ ~optComplete => (~complete /\ result # "Satisfiable")

C1_Witness ==
  /\ result = "Satisfiable"
  /\ active # {}
  /\ optComplete

\* C2: once an updateLimits call has left the weight or the age limit
\* active, `complete` is false and stays false, whatever later updates do to
\* the limits, and the run does not return Satisfiable.
C2_LimitedNeverComplete ==
  everLimited => (~complete /\ result # "Satisfiable")

C2_Witness ==
  /\ everLimited
  /\ ~LimitsActive(limits)
  /\ optComplete
  /\ result = "RefutationNotFound"

\* C3 as claimed: with the deadline passed at step 3, 6 or 8 the run does
\* not return Satisfiable or RefutationNotFound.
C3_PolledAtThreeSteps ==
  [][(pc \in {"timecheck1", "passivecheck", "timecheck2"} /\ tl)
       => result' \notin {"Satisfiable", "RefutationNotFound"}]_vars

\* C3 amended: the deadline is polled at steps 3 and 8, where a passed
\* deadline returns TimeLimit at once; step 6 does not poll, and an empty
\* passive container there returns Satisfiable or RefutationNotFound.
C3_PolledAtTwoSteps ==
  [][/\ (pc \in {"timecheck1", "timecheck2"} /\ tl)
          => (pc' = "done" /\ result' = "TimeLimit")
     /\ (pc = "passivecheck" /\ tl /\ passive = {})
          => (pc' = "done" /\ result' \in {"Satisfiable", "RefutationNotFound"})
     /\ (result # "TimeLimit" /\ result' = "TimeLimit")
          => (pc \in {"timecheck1", "timecheck2"} /\ tl)]_vars

C3_Witness ==
  /\ pc = "done"
  /\ result = "TimeLimit"
  /\ tl
  /\ active # {}

InUnprocessed(c) == \E i \in 1..Len(unprocessed) : unprocessed[i] = c

\* the container holding clause c (NONE when none does)
Holder(c) ==
  IF InUnprocessed(c) THEN "UNPROCESSED"
  ELSE IF c \in passive THEN "PASSIVE"
  ELSE IF c \in active THEN "ACTIVE"
  ELSE "NONE"

InAtMostOne(c) ==
  /\ ~(InUnprocessed(c) /\ c \in passive)
  /\ ~(InUnprocessed(c) /\ c \in active)
  /\ ~(c \in passive /\ c \in active)
  /\ Cardinality({i \in 1..Len(unprocessed) : unprocessed[i] = c}) <= 1

-----------------------------------------------------------------------------
(* The rebalancing inverter, Kernel/Rebalancing/Inverters.cpp.             *)
(* A term is a leaf [head, sort, val] or an application [head, sort,       *)
(* args]. A leaf is a numeral ("num": theory->tryInterpretConstant         *)
(* succeeds on it) or any other term ("sym"); val is the value the leaf    *)
(* has under the interpretation at hand. Rat and Real values are pairs     *)
(* <<numerator, denominator>>, arrays are functions, term-algebra values   *)
(* are tuples <<constructor, field, ...>>.                                 *)

\* numerals range over -MaxNum..MaxNum (denominators over 1..MaxNum)
MaxNum == 2

Leaf(kind, sort, v) == [head |-> kind, sort |-> sort, val |-> v]

Node(head, sort, args) == [head |-> head, sort |-> sort, args |-> args]

IsLeaf(t) == t.head \in {"num", "sym"}

FracSorts == {"Rat", "Real"}

NumericSorts == {"Int"} \cup FracSorts

\* the signature: add, minus, mul, div, store and select are interpreted,
\* cons is a term-algebra constructor with the destructors car and cdr,
\* f is uninterpreted
isInterpretedFunction(t) ==
  t.head \in {"add", "minus", "mul", "div", "store", "select"}

termAlgebraCons(t) == t.head = "cons"

destructorFunctor(ctor, index) == IF index = 0 THEN "car" ELSE "cdr"

tryInterpretConstant(t) == t.head = "num"

\* number::one()
One(sort) == Leaf("num", sort, IF sort = "Int" THEN 1 ELSE <<1, 1>>)

\* t[k] of the code, k counted from 0
Arg(t, k) == t.args[k + 1]

\* Inverters.cpp:157-160
nonZero(t) == tryInterpretConstant(t) /\ t.val[1] # 0

\* a TermList that was declared and never assigned (Inverters.cpp:146, 153)
Uninitialised == Node("uninitialised", "none", <<>>)

\* Inverters.cpp:121-142: [ok: the return value, out: the out parameter]
tryInvertMulInt(c) ==
  LET a_ == Arg(c.topTerm, 1 - c.topIdx) IN
  IF tryInterpretConstant(a_)
  THEN IF a_.val = 1 THEN [ok |-> TRUE, out |-> c.toWrap]
       ELSE IF a_.val = -1
            THEN [ok |-> TRUE, out |-> Node("mul", "Int", <<a_, c.toWrap>>)]
            ELSE [ok |-> FALSE, out |-> Uninitialised]
  ELSE [ok |-> FALSE, out |-> Uninitialised]

\* Inverters.cpp:151-155
canInvertMulInt(c) == tryInvertMulInt(c).ok

\* mutant: integer multiplication is treated like the fractional one
canInvertTopIntAsFrac(c) ==
  LET t == c.topTerm IN
  IF isInterpretedFunction(t)
  THEN CASE t.head = "add" /\ t.sort \in NumericSorts -> TRUE
         [] t.head = "minus" /\ t.sort \in NumericSorts -> TRUE
         [] t.head = "mul" /\ t.sort \in FracSorts -> nonZero(Arg(t, 1 - c.topIdx))
         [] t.head = "mul" /\ t.sort = "Int" ->
              tryInterpretConstant(Arg(t, 1 - c.topIdx)) /\ Arg(t, 1 - c.topIdx).val # 0
         [] t.head = "store" -> c.topIdx = 2
         [] OTHER -> FALSE
  ELSE IF termAlgebraCons(t) THEN TRUE
  ELSE FALSE

\* mutant: store is accepted at every argument position
canInvertTopStoreAnyIndex(c) ==
  LET t == c.topTerm IN
  IF isInterpretedFunction(t)
  THEN CASE t.head = "add" /\ t.sort \in NumericSorts -> TRUE
         [] t.head = "minus" /\ t.sort \in NumericSorts -> TRUE
         [] t.head = "mul" /\ t.sort \in FracSorts -> nonZero(Arg(t, 1 - c.topIdx))
         [] t.head = "mul" /\ t.sort = "Int" -> canInvertMulInt(c)
         [] t.head = "store" -> TRUE
         [] OTHER -> FALSE
  ELSE IF termAlgebraCons(t) THEN TRUE
  ELSE FALSE

\* Inverters.cpp:28-57
canInvertTop(c) ==
  LET t == c.topTerm IN
  IF isInterpretedFunction(t)
  THEN CASE t.head = "add" /\ t.sort \in NumericSorts -> TRUE
         [] t.head = "minus" /\ t.sort \in NumericSorts -> TRUE
         [] t.head = "mul" /\ t.sort \in FracSorts -> nonZero(Arg(t, 1 - c.topIdx))
         [] t.head = "mul" /\ t.sort = "Int" -> canInvertMulInt(c)
         [] t.head = "store" -> c.topIdx = 2
         [] OTHER -> FALSE
  ELSE IF termAlgebraCons(t) THEN TRUE
  ELSE FALSE

\* the outcomes of invertTop: a term, a failed assertion (VDEBUG builds),
\* or undefined behaviour (no return value, a null constructor)
Term(t) == [kind |-> "term", term |-> t]

AssertionFailure == [kind |-> "assertion", term |-> Uninitialised]

Undefined == [kind |-> "undefined", term |-> Uninitialised]

\* Inverters.cpp:144-149
doInvertMulInt(c, debug) ==
  LET r == tryInvertMulInt(c) IN
  IF r.ok THEN Term(r.out)
  ELSE IF debug THEN AssertionFailure
  ELSE Undefined

\* Inverters.cpp:96-107
invertStore(c, debug) ==
  IF debug /\ c.topIdx # 2 THEN AssertionFailure
  ELSE Term(Node("select", Arg(c.topTerm, 2).sort, <<c.toWrap, Arg(c.topTerm, 1)>>))

\* Inverters.cpp:111-118
invertConstructor(c, debug) ==
  IF termAlgebraCons(c.topTerm)
  THEN Term(Node(destructorFunctor(c.topTerm.head, c.topIdx),
                 Arg(c.topTerm, c.topIdx).sort, <<c.toWrap>>))
  ELSE IF debug THEN AssertionFailure
  ELSE Undefined

\* mutant: the add case forgets to negate the other summand
invertTopAddNotNegated(c, debug) ==
  LET t == c.topTerm
      index == c.topIdx
      toWrap == c.toWrap
  IN
  IF debug /\ ~canInvertTop(c) THEN AssertionFailure
  ELSE IF isInterpretedFunction(t)
  THEN CASE t.head = "add" /\ t.sort \in NumericSorts ->
              Term(Node("add", t.sort, <<toWrap, Arg(t, 1 - index)>>))
         [] t.head = "minus" /\ t.sort \in NumericSorts ->
              Term(Node("minus", t.sort, <<toWrap>>))
         [] t.head = "mul" /\ t.sort \in FracSorts ->
              Term(Node("mul", t.sort,
                        <<toWrap, Node("div", t.sort, <<One(t.sort), Arg(t, 1 - index)>>)>>))
         [] t.head = "mul" /\ t.sort = "Int" -> doInvertMulInt(c, debug)
         [] t.head = "store" -> invertStore(c, debug)
         [] OTHER -> IF debug THEN AssertionFailure ELSE Undefined
  ELSE invertConstructor(c, debug)

\* mutant: the fractional mul case multiplies by the other factor itself
invertTopMulNoReciprocal(c, debug) ==
  LET t == c.topTerm
      index == c.topIdx
      toWrap == c.toWrap
  IN
  IF debug /\ ~canInvertTop(c) THEN AssertionFailure
  ELSE IF isInterpretedFunction(t)
  THEN CASE t.head = "add" /\ t.sort \in NumericSorts ->
              Term(Node("add", t.sort,
                        <<toWrap, Node("minus", t.sort, <<Arg(t, 1 - index)>>)>>))
         [] t.head = "minus" /\ t.sort \in NumericSorts ->
              Term(Node("minus", t.sort, <<toWrap>>))
         [] t.head = "mul" /\ t.sort \in FracSorts ->
              Term(Node("mul", t.sort, <<toWrap, Arg(t, 1 - index)>>))
         [] t.head = "mul" /\ t.sort = "Int" -> doInvertMulInt(c, debug)
         [] t.head = "store" -> invertStore(c, debug)
         [] OTHER -> IF debug THEN AssertionFailure ELSE Undefined
  ELSE invertConstructor(c, debug)

\* mutant: the ASS(canInvertTop(ctxt)) of Inverters.cpp:79 is missing
invertTopUnchecked(c, debug) ==
  LET t == c.topTerm
      index == c.topIdx
      toWrap == c.toWrap
  IN
  IF isInterpretedFunction(t)
  THEN CASE t.head = "add" /\ t.sort \in NumericSorts ->
              Term(Node("add", t.sort,
                        <<toWrap, Node("minus", t.sort, <<Arg(t, 1 - index)>>)>>))
         [] t.head = "minus" /\ t.sort \in NumericSorts ->
              Term(Node("minus", t.sort, <<toWrap>>))
         [] t.head = "mul" /\ t.sort \in FracSorts ->
              Term(Node("mul", t.sort,
                        <<toWrap, Node("div", t.sort, <<One(t.sort), Arg(t, 1 - index)>>)>>))
         [] t.head = "mul" /\ t.sort = "Int" -> doInvertMulInt(c, debug)
         [] t.head = "store" -> invertStore(c, debug)
         [] OTHER -> IF debug THEN AssertionFailure ELSE Undefined
  ELSE invertConstructor(c, debug)

\* Inverters.cpp:77-119
invertTop(c, debug) ==
  LET t == c.topTerm
      index == c.topIdx
      toWrap == c.toWrap
  IN
  IF debug /\ ~canInvertTop(c) THEN AssertionFailure
  ELSE IF isInterpretedFunction(t)
  THEN CASE t.head = "add" /\ t.sort \in NumericSorts ->
              Term(Node("add", t.sort,
                        <<toWrap, Node("minus", t.sort, <<Arg(t, 1 - index)>>)>>))
         [] t.head = "minus" /\ t.sort \in NumericSorts ->
              Term(Node("minus", t.sort, <<toWrap>>))
         [] t.head = "mul" /\ t.sort \in FracSorts ->
              Term(Node("mul", t.sort,
                        <<toWrap, Node("div", t.sort, <<One(t.sort), Arg(t, 1 - index)>>)>>))
         [] t.head = "mul" /\ t.sort = "Int" -> doInvertMulInt(c, debug)
         [] t.head = "store" -> invertStore(c, debug)
         [] OTHER -> IF debug THEN AssertionFailure ELSE Undefined
  ELSE invertConstructor(c, debug)

-----------------------------------------------------------------------------
(* SpecInv: canInvertTop and then invertTop on any context.                *)

IntNums == (-MaxNum)..MaxNum

FracVals == {<<n, d>> : n \in IntNums, d \in 1..MaxNum}

IntLeaves ==
  {Leaf("num", "Int", n) : n \in IntNums}
    \cup {Leaf("sym", "Int", v) : v \in {1, MaxNum + 1}}

FracLeaves(sort) ==
  {Leaf("num", sort, q) : q \in FracVals} \cup {Leaf("sym", sort, <<1, 1>>)}

NumLeaves(sort) == IF sort = "Int" THEN IntLeaves ELSE FracLeaves(sort)

\* arrays map IndexSet to ElemSet; the fields of a list are in ElemSet
IndexSet == {0, 1}

ElemSet == {0, 1}

ElemLeaves == {Leaf(k, "Int", v) : k \in {"num", "sym"}, v \in ElemSet}

ArrayLeaves == {Leaf("sym", "Array", a) : a \in [IndexSet -> ElemSet]}

ListValues == {<<"nil">>} \cup {<<"cons", a, b>> : a \in ElemSet, b \in ElemSet}

ListLeaves == {Leaf("sym", "List", v) : v \in ListValues}

\* the terms t = topTerm of the contexts, and for each the terms w = toWrap
\* of its sort
TopTerms ==
  UNION {
    UNION { {Node(h, srt, <<a, b>>) : a \in NumLeaves(srt), b \in NumLeaves(srt)}
            : h \in {"add", "mul", "div"} }
      \cup {Node("minus", srt, <<a>>) : a \in NumLeaves(srt)}
    : srt \in NumericSorts }
  \cup {Node("store", "Array", <<a, i, x>>) :
          a \in ArrayLeaves, i \in ElemLeaves, x \in ElemLeaves}
  \cup {Node("select", "Int", <<a, i>>) : a \in ArrayLeaves, i \in ElemLeaves}
  \cup {Node("cons", "List", <<x, y>>) : x \in ElemLeaves, y \in ElemLeaves}
  \cup {Node("f", "Int", <<x, y>>) : x \in ElemLeaves, y \in ElemLeaves}

WrapLeaves(t) ==
  CASE t.head \in {"add", "mul", "div", "minus"} -> NumLeaves(t.sort)
    [] t.head = "store" -> ArrayLeaves
    [] t.head = "cons" -> ListLeaves
    [] OTHER -> ElemLeaves

InvInit ==
  /\ LoopIdle
  /\ CntObsIdle
  /\ EstIdle
  /\ SchIdle
  /\ cnt = 0
  /\ limits = NoLimits
  /\ invPc = "call"
  /\ vdebug \in BOOLEAN
  /\ \E t \in TopTerms : \E i \in 0..(Len(t.args) - 1) : \E w \in WrapLeaves(t) :
       ctxt = [topTerm |-> t, topIdx |-> i, toWrap |-> w]
  /\ canInvert = FALSE
  /\ inverted = Undefined

\* Inverters.cpp:28-57
CallCanInvertTop ==
  /\ invPc = "call"
  /\ canInvert' = canInvertTop(ctxt)
  /\ invPc' = "asked"
  /\ UNCHANGED <<vdebug, ctxt, inverted, loopVars, cntObs, estVars, schVars>>

\* Inverters.cpp:77-119
CallInvertTop ==
  /\ invPc = "asked"
  /\ inverted' = invertTop(ctxt, vdebug)
  /\ invPc' = "ret"
  /\ UNCHANGED <<vdebug, ctxt, canInvert, loopVars, cntObs, estVars, schVars>>

InvNext ==
  \/ CallCanInvertTop
  \/ CallInvertTop

SpecInv == InvInit /\ [][InvNext]_vars

\* the other argument of a binary topTerm
Other == Arg(ctxt.topTerm, 1 - ctxt.topIdx)

IsNumeral(t, v) == t.head = "num" /\ t.val = v

\* C7: canInvertTop follows the table: add and minus always; mul of
\* Rat/Real iff the other argument is a numeral other than zero; mul of Int
\* iff the other argument is the numeral 1 or -1; store iff topIdx = 2; a
\* term-algebra constructor always; anything else never.
C7_InvertibilityTable ==
  invPc \in {"asked", "ret"} =>
    canInvert =
      (CASE ctxt.topTerm.head \in {"add", "minus"} -> TRUE
         [] ctxt.topTerm.head = "mul" /\ ctxt.topTerm.sort \in {"Rat", "Real"} ->
              Other.head = "num" /\ Other.val[1] # 0
         [] ctxt.topTerm.head = "mul" /\ ctxt.topTerm.sort = "Int" ->
              IsNumeral(Other, 1) \/ IsNumeral(Other, -1)
         [] ctxt.topTerm.head = "store" -> ctxt.topIdx = 2
         [] ctxt.topTerm.head = "cons" -> TRUE
         [] OTHER -> FALSE)

C7_Witness ==
  /\ invPc = "asked"
  /\ ctxt.topTerm.head = "mul"
  /\ ctxt.topTerm.sort = "Int"
  /\ IsNumeral(Other, -1)
  /\ canInvert

\* the inverse the claim prescribes for an accepted context
Prescribed ==
  LET t == ctxt.topTerm
      w == ctxt.toWrap
  IN
  CASE t.head = "add" -> Node("add", t.sort, <<w, Node("minus", t.sort, <<Other>>)>>)
    [] t.head = "minus" -> Node("minus", t.sort, <<w>>)
    [] t.head = "mul" /\ t.sort # "Int" ->
         Node("mul", t.sort,
              <<w, Node("div", t.sort, <<Leaf("num", t.sort, <<1, 1>>), Other>>)>>)
    [] t.head = "mul" /\ t.sort = "Int" ->
         IF Other.val = 1 THEN w ELSE Node("mul", "Int", <<Other, w>>)
    [] t.head = "store" -> Node("select", "Int", <<w, t.args[2]>>)
    [] t.head = "cons" ->
         Node(IF ctxt.topIdx = 0 THEN "car" ELSE "cdr", "Int", <<w>>)

\* C8: on every context canInvertTop accepts, invertTop returns the inverse
\* prescribed for the head.
C8_PrescribedInverse ==
  (invPc = "ret" /\ canInvert) =>
    (inverted.kind = "term" /\ inverted.term = Prescribed)

C8_Witness ==
  /\ invPc = "ret"
  /\ canInvert
  /\ ctxt.topTerm.head = "store"
  /\ inverted.kind = "term"
  /\ inverted.term.head = "select"

-----------------------------------------------------------------------------
(* The theory: the value of a term. *)

RatAdd(a, b) == <<a[1] * b[2] + b[1] * a[2], a[2] * b[2]>>

RatNeg(a) == <<-a[1], a[2]>>

RatMul(a, b) == <<a[1] * b[1], a[2] * b[2]>>

RatDiv(a, b) == <<a[1] * b[2], a[2] * b[1]>>

\* equality of two values of a sort
SameValue(sort, a, b) ==
  IF sort \in FracSorts THEN a[1] * b[2] = b[1] * a[2] ELSE a = b

\* a destructor applied to a value of another constructor: the theory
\* leaves it open, the interpretation at hand fixes it
DestructorDefault == 0

RECURSIVE Eval(_)
Eval(t) ==
  IF IsLeaf(t) THEN t.val
  ELSE CASE t.head = "add" ->
              IF t.sort = "Int" THEN Eval(t.args[1]) + Eval(t.args[2])
              ELSE RatAdd(Eval(t.args[1]), Eval(t.args[2]))
         [] t.head = "minus" ->
              IF t.sort = "Int" THEN -Eval(t.args[1]) ELSE RatNeg(Eval(t.args[1]))
         [] t.head = "mul" ->
              IF t.sort = "Int" THEN Eval(t.args[1]) * Eval(t.args[2])
              ELSE RatMul(Eval(t.args[1]), Eval(t.args[2]))
         [] t.head = "div" -> RatDiv(Eval(t.args[1]), Eval(t.args[2]))
         [] t.head = "store" ->
              [Eval(t.args[1]) EXCEPT ![Eval(t.args[2])] = Eval(t.args[3])]
         [] t.head = "select" -> Eval(t.args[1])[Eval(t.args[2])]
         [] t.head = "cons" -> <<"cons", Eval(t.args[1]), Eval(t.args[2])>>
         [] t.head = "car" ->
              LET v == Eval(t.args[1]) IN
              IF v[1] = "cons" THEN v[2] ELSE DestructorDefault
         [] t.head = "cdr" ->
              LET v == Eval(t.args[1]) IN
              IF v[1] = "cons" THEN v[3] ELSE DestructorDefault

\* topTerm with its argument at topIdx replaced by r
Substituted(r) ==
  [ctxt.topTerm EXCEPT !.args[ctxt.topIdx + 1] = r]

\* topTerm evaluates to toWrap with invertTop's result at topIdx
RoundTrip ==
  SameValue(ctxt.topTerm.sort, Eval(Substituted(inverted.term)), Eval(ctxt.toWrap))

\* some value at topIdx makes topTerm evaluate to toWrap (store and cons:
\* the argument is an element)
Solvable ==
  \E v \in ElemSet :
    Eval(Substituted(Leaf("sym", "Int", v))) = Eval(ctxt.toWrap)

\* C9 as claimed: on every accepted context, of any head, the round trip
\* holds.
C9_RoundTripAllHeads ==
  (invPc = "ret" /\ canInvert /\ inverted.kind = "term") => RoundTrip

\* C9 amended: the round trip holds for add, minus and mul whatever the
\* other arguments are; for store and for a constructor it holds exactly
\* when topTerm = toWrap has a solution for the argument at topIdx.
C9_RoundTripWhenSolvable ==
  (invPc = "ret" /\ canInvert) =>
    /\ inverted.kind = "term"
    /\ ctxt.topTerm.head \in {"add", "minus", "mul"} => RoundTrip
    /\ ctxt.topTerm.head \in {"store", "cons"} => (RoundTrip = Solvable)

C9_Witness ==
  /\ invPc = "ret"
  /\ canInvert
  /\ ctxt.topTerm.head = "mul"
  /\ ctxt.topTerm.sort = "Rat"
  /\ Other.val = <<-2, 2>>
  /\ ctxt.toWrap.val = <<1, 2>>
  /\ RoundTrip

C9_WitnessStore ==
  /\ invPc = "ret"
  /\ canInvert
  /\ ctxt.topTerm.head = "store"
  /\ Solvable
  /\ RoundTrip

\* C21: on every context canInvertTop accepts, invertTop takes a defined
\* case in builds with and without assertion checks: an interpreted head
\* has a case of the switch (the default branch is not reached), a store is
\* inverted at topIdx 2, a head that is not interpreted is a term-algebra
\* constructor, tryInvertMulInt succeeds for an Int mul, and so the call
\* returns a term, never a failed assertion or an undefined value.
C21_AcceptedHasDefinedCase ==
  (invPc = "ret" /\ canInvert) =>
    LET t == ctxt.topTerm IN
    /\ inverted.kind \notin {"assertion", "undefined"}
    /\ inverted.term # Uninitialised
    /\ isInterpretedFunction(t) =>
         \/ t.head \in {"add", "minus", "mul"} /\ t.sort \in NumericSorts
         \/ t.head = "store"
    /\ t.head = "store" => ctxt.topIdx = 2
    /\ ~isInterpretedFunction(t) => termAlgebraCons(t)
    /\ (t.head = "mul" /\ t.sort = "Int") =>
         (tryInvertMulInt(ctxt).ok /\ inverted.term = tryInvertMulInt(ctxt).out)

\* an Int mul by -1, inverted in a build that checks the ALWAYS
C21_Witness ==
  /\ invPc = "ret"
  /\ canInvert
  /\ vdebug
  /\ ctxt.topTerm.head = "mul"
  /\ ctxt.topTerm.sort = "Int"
  /\ IsNumeral(Other, -1)
  /\ inverted.kind = "term"

-----------------------------------------------------------------------------
(* Properties of the steps of LRS::doSaturation. *)

\* the step selects a clause from passive and activates it (LRS.cpp:130-135)
ActivationStep == pc = "passivecheck" /\ pc' # pc /\ passive' # passive

\* C14: a clause is selected only when _unprocessed is empty, no new clause
\* waits (clausesFlushed()) and passive is non-empty; the selection point is
\* reached only from onAllProcessed(), called when the inner loop found
\* _unprocessed empty; the one selected clause leaves passive and is either
\* active afterwards or, its activation having failed, handled by
\* handleUnsuccessfulActivation within the same step (in no container,
\* tagged NONE).
C14_GivenClauseDiscipline ==
  [][/\ ActivationStep =>
          /\ unprocessed = <<>>
          /\ newClauses = {}
          /\ passive # {}
          /\ \E c \in passive :
               /\ passive' = passive \ {c}
               /\ \/ store'[c] = "ACTIVE" /\ active' = active \cup {c}
                  \/ /\ store'[c] = "NONE"
                     /\ c \notin simplCont'
                     /\ active' = active
     /\ (pc # "passivecheck" /\ pc' = "passivecheck") =>
          /\ pc = "while"
          /\ unprocessed = <<>>
          /\ unprocessed' = <<>>
          /\ newClauses' = {}]_vars

\* an activation has failed: the loop is past it with nothing active
C14_Witness ==
  /\ pc = "timecheck2"
  /\ active = {}
  /\ passive # {}
  /\ \E c \in Clauses : store[c] = "NONE" /\ c \notin newClauses

\* addToPassive(c) was called in the iteration of `c` and returned true
AddedToPassive ==
  \E i \in 1..Len(helperCalls) : helperCalls[i] = <<"addToPassive", TRUE>>

\* C15: for the clause popped from _unprocessed the helpers run in the order
\* forwardSimplify, backwardSimplify, addToPassive, the last two only after
\* forwardSimplify succeeded; the clause is in _simplCont (and PASSIVE) iff
\* addToPassive returned true, and otherwise its store is NONE.
C15_ProcessingOrder ==
  (pc \in {"timecheck1", "limits"} /\ cur # 0) =>
    /\ Len(helperCalls) \in {1, 3}
    /\ helperCalls[1][1] = "forwardSimplify"
    /\ (Len(helperCalls) = 3) = helperCalls[1][2]
    /\ Len(helperCalls) = 3 =>
         /\ helperCalls[2][1] = "backwardSimplify"
         /\ helperCalls[3][1] = "addToPassive"
    /\ (cur \in simplCont) = AddedToPassive
    /\ AddedToPassive => (store[cur] = "PASSIVE" /\ cur \in passive)
    /\ ~AddedToPassive => (store[cur] = "NONE" /\ cur \notin passive)

\* forwardSimplify succeeded and addToPassive refused the clause
C15_Witness ==
  /\ pc = "timecheck1"
  /\ cur # 0
  /\ Len(helperCalls) = 3
  /\ ~AddedToPassive
  /\ store[cur] = "NONE"
  /\ cur \notin simplCont

\* the step is a limit step (LRS.cpp:109-118)
LimitStepTaken == pc = "limits" /\ pc' # pc

\* C16: updateLimits is called at a limit step iff shouldUpdateLimits()
\* returned true and the estimate is >= 0, and with that estimate; so never
\* while elapsed < firstCheck or with at most 10 activated clauses. A limit
\* step where shouldUpdateLimits() is false or the estimate is -1 leaves the
\* limits and `complete` as they are.
C16_UpdateOnlyOnEstimate ==
  [][LimitStepTaken =>
       LET ob == limObs'
           called == lastUpd' # NoCall
       IN
       /\ called = (ob.should /\ ~ob.est.trap /\ ob.est.val >= 0)
       /\ ~ob.should => ob.est = NotCalled
       /\ called =>
            /\ lastUpd' = ob.est.val
            /\ lastUpd' >= 0
            /\ TimeSpent(ob.in) >= FirstCheck(ob.in)
            /\ ob.in.processed > 10
       /\ (~ob.should \/ (~ob.est.trap /\ ob.est.val = -1)) =>
            /\ limits' = limits
            /\ complete' = complete
            /\ passive' = passive]_vars

\* updateLimits was just called with the estimate 11 and switched a limit on
C16_Witness ==
  /\ limObs.should
  /\ limObs.est = Returns(11)
  /\ lastUpd = 11
  /\ LimitsActive(limits)
  /\ ~complete /\ optComplete

\* C18: once the deadline has passed, doSaturation returns, having processed
\* at most one more clause from _unprocessed and activated at most one more
\* clause.
C18_BoundedResponse ==
  /\ tl ~> (pc = "done")
  /\ [](late.processed <= 1 /\ late.activated <= 1)

\* the deadline passed before a selection; the run ended after that one
\* activation
C18_Witness ==
  /\ pc = "done"
  /\ result = "TimeLimit"
  /\ late = [processed |-> 0, activated |-> 1]

-----------------------------------------------------------------------------
(* SpecSched: the portfolio scheduler, CASC/CASCMode.hpp:27-60.            *)
(* CASCMode::perform runs runSchedule on the quick schedule and then on    *)
(* the fallback schedule with one StrategySet; a slice is the string       *)
(* "<strategy-code>_<deciseconds>", here the pair <<code, deciseconds>>.   *)

\* slices of one schedule: 0..MaxSlices
MaxSlices == 2

\* deciseconds of the whole portfolio: 0..MaxBudget
MaxBudget == 3

StrategyCodes == {"a", "b"}

SliceTimes == {1, 2}

Slices == StrategyCodes \X SliceTimes

Schedules == UNION {[1..n -> Slices] : n \in 0..MaxSlices}

\* CASCMode::getSliceTime, CASCMode.hpp:36: the trailing integer of the
\* slice and, in `chopped`, the code before it
getSliceTime(slice) == [time |-> slice[2], chopped |-> slice[1]]

Min(a, b) == IF a <= b THEN a ELSE b

\* the schedule runSchedule is iterating over
Schedule == IF schPc = "quick" THEN quick ELSE fallback

SchedInit ==
  /\ LoopIdle
  /\ CntObsIdle
  /\ EstIdle
  /\ InvIdle
  /\ cnt = 0
  /\ limits = NoLimits
  /\ schPc = "quick"
  /\ quick \in Schedules
  /\ fallback \in Schedules
  /\ idx = 1
  /\ remember = {}
  /\ budget \in 0..MaxBudget
  /\ schLog = <<>>
  /\ schResult = "None"

\* runSchedule: a slice whose code is in `remember` is skipped
SkipSlice ==
  /\ schPc \in {"quick", "fallback"}
  /\ idx <= Len(Schedule)
  /\ getSliceTime(Schedule[idx]).chopped \in remember
  /\ idx' = idx + 1
  /\ UNCHANGED <<schPc, quick, fallback, remember, budget, schLog, schResult>>
  /\ UNCHANGED <<loopVars, cntObs, estVars, invVars>>

\* mutant: a failed code is not inserted
RememberAfterSliceForgets(rem, code, ok) == rem

\* runSchedule: the code of a slice that ran and failed is inserted
RememberAfterSlice(rem, code, ok) == IF ok THEN rem ELSE rem \cup {code}

\* runSchedule: a slice whose code is not in `remember` runs with the budget
\* min(sliceTime, remainingBudget); success returns true at once (perform
\* then stops), failure inserts the code and continues
\*   ok  : runSlice returned true      used: the deciseconds the slice took
RunSlice ==
  /\ schPc \in {"quick", "fallback"}
  /\ idx <= Len(Schedule)
  /\ LET sl == getSliceTime(Schedule[idx])
         granted == Min(sl.time, budget)
     IN
     /\ sl.chopped \notin remember
     /\ \E ok \in BOOLEAN, used \in 0..granted :
          /\ schLog' = Append(schLog, <<sl.chopped, ok>>)
          /\ remember' = RememberAfterSlice(remember, sl.chopped, ok)
          /\ budget' = budget - used
          /\ schPc' = IF ok THEN "done" ELSE schPc
          /\ schResult' = IF ok THEN "Success" ELSE schResult
          /\ idx' = IF ok THEN idx ELSE idx + 1
  /\ UNCHANGED <<quick, fallback>>
  /\ UNCHANGED <<loopVars, cntObs, estVars, invVars>>

\* runSchedule returns false at the end of the schedule; perform goes on to
\* the fallback schedule and after it yields RefutationNotFound
EndSchedule ==
  /\ schPc \in {"quick", "fallback"}
  /\ idx > Len(Schedule)
  /\ IF schPc = "quick"
     THEN /\ schPc' = "fallback"
          /\ idx' = 1
          /\ UNCHANGED schResult
     ELSE /\ schPc' = "done"
          /\ schResult' = "RefutationNotFound"
          /\ UNCHANGED idx
  /\ UNCHANGED <<quick, fallback, remember, budget, schLog>>
  /\ UNCHANGED <<loopVars, cntObs, estVars, invVars>>

SchedNext ==
  \/ SkipSlice
  \/ RunSlice
  \/ EndSchedule

SpecSched == SchedInit /\ [][SchedNext]_vars

\* the codes of the slices run so far with the given outcome
LoggedCodes(ok) == {schLog[i][1] : i \in {j \in 1..Len(schLog) : schLog[j][2] = ok}}

\* C11: no strategy code is run twice; `remember` holds exactly the codes of
\* the slices that ran and failed, so a code that failed in the quick
\* schedule is not run in the fallback schedule; a successful slice is the
\* last one run and ends the portfolio with success.
C11_NoCodeRunTwice ==
  /\ \A i, j \in 1..Len(schLog) : schLog[i][1] = schLog[j][1] => i = j
  /\ remember = LoggedCodes(FALSE)
  /\ \A i \in 1..Len(schLog) :
       schLog[i][2] => (i = Len(schLog) /\ schPc = "done" /\ schResult = "Success")
  /\ schResult = "RefutationNotFound" =>
       \A i \in 1..Len(fallback) : fallback[i][1] \in remember

\* both schedules name code "a"; it failed in quick and was skipped in fallback
C11_Witness ==
  /\ schPc = "done"
  /\ schResult = "RefutationNotFound"
  /\ Len(quick) = 2 /\ quick[1][1] = "a" /\ quick[2][1] = "a"
  /\ Len(fallback) = 2 /\ fallback[1][1] = "a" /\ fallback[2][1] = "b"
  /\ Len(schLog) = 2

-----------------------------------------------------------------------------
(* SpecInert: LRS::doSaturation on an inert input with options.complete    *)
(* set and no deadline. The counter of shouldUpdateLimits is static        *)
(* (LRS.cpp:35): the run starts with whatever the calls made earlier in    *)
(* the process left in it. The loop is sequential code and every helper    *)
(* returns, so a step that can be taken is taken: weak fairness.           *)

InertInit ==
  /\ CntObsIdle
  /\ EstIdle
  /\ InvIdle
  /\ SchIdle
  /\ InertObsIdle
  /\ helperCalls = <<>>
  /\ limObs = NoLimObs
  /\ late = NoneLate
  /\ inert = TRUE
  /\ pc = "top"
  /\ unprocessed = <<>>
  /\ \E n \in 0..MaxClauses : newClauses = 1..n
  /\ passive = {}
  /\ active = {}
  /\ simplCont = {}
  /\ store = [c \in Clauses |-> "NONE"]
  /\ cur = 0
  /\ optComplete = TRUE
  /\ complete = optComplete
  /\ limits = NoLimits
  /\ cnt \in 0..(UpdatePeriod - 1)
  /\ tl = FALSE
  /\ result = "None"
  /\ lastUpd = NoCall
  /\ everLimited = FALSE

InertNext == LoopStep

SpecInert == InertInit /\ [][InertNext]_vars /\ WF_vars(InertNext)

C12_Finished ==
  /\ pc = "done"
  /\ result = "Satisfiable" /\ complete
  /\ \A c \in admitted \ removed : actCount[c] = 1

====
